---- MODULE Spec2Model ----
(***************************************************************************)
(* Pairs-trading core of Trader.py: the cointegration scan                 *)
(* (find_cointegrated_pairs, safe_price) and the threshold backtest        *)
(* (backtest_pair).                                                        *)
(*                                                                         *)
(* Numbers.  Spread values are integers.  Thresholds are held in tenths    *)
(* (entry_z = 10 is the default 1.0, exit_z = 2 the default 0.2).          *)
(* p-values are held in hundredths (significance = 5 is the default 0.05). *)
(* The z-score of observation k is (spread[k] - mean) / std with the       *)
(* sample standard deviation (pandas, ddof = 1), which is irrational in    *)
(* general; it is kept as the integer Dev = N*spread[k] - Sum, for which   *)
(* the z-score is Dev * sqrt(N-1) / sqrt(SumSq), and every comparison of   *)
(* a z-score with a threshold is decided exactly on squares.               *)
(* Money is kept as base + qty * (size / std), size = cash * 0.1, so that  *)
(* a profit (spread move) * (size / std) is the integer spread move.       *)
(***************************************************************************)
EXTENDS Integers, Sequences, FiniteSets, TLC

VARIABLES
    pc,           \* control point of the function being run
    i,            \* loop variable i of either function
    \* ---- backtest_pair ----
    spread,       \* spread series returned by compute_spread (values)
    index,        \* spread.index: the timestamps, strictly increasing
    z,            \* z-score series, each value as its numerator Dev
    std,          \* spread.std(), as N^2 * (N-1) * its square
    cash,         \* parameter cash
    entry_z,      \* parameter entry_z, in tenths
    exit_z,       \* parameter exit_z, in tenths
    position,     \* 0 flat, 1 long spread, -1 short spread
    pnl,          \* list pnl
    capital,      \* running capital
    trades,       \* list trades
    entry_price,  \* None or the spread at entry
    entry_date,   \* None or the timestamp at entry
    \* ---- find_cointegrated_pairs ----
    keys,         \* list(data_dict.keys())
    noPrice,      \* instruments whose table has neither "adj close" nor "close"
    max_pairs,    \* parameter max_pairs
    j,            \* inner loop variable
    candidates,   \* list candidates
    tested,       \* pairs handed to OLS / adfuller, in order
    aligned,      \* len(pd.concat(...).dropna()) per unordered pair, once computed
    adf,          \* adfuller(resid)[1] per ordered pair, once computed
    run,          \* number of the scan being run over the same data_dict
    prev          \* list returned by the previous scan

btVars == <<spread, index, z, std, cash, entry_z, exit_z, position, pnl, capital,
            trades, entry_price, entry_date>>
scVars == <<keys, noPrice, max_pairs, j, candidates, tested, aligned, adf,
            run, prev>>
vars == <<pc, i, btVars, scVars>>

(***************************************************************************)
(* Bounds of the model                                                     *)
(***************************************************************************)
MinLen == 3
MaxLen == 6
MaxInstr == 4
MaxLimit == 3
MaxRescan == 3

SpreadVals == {-1, 0, 1}
EntryVals == {-10, 0, 10}
ExitVals == {-2, 2, 15}
CashVals == {100000}

Significance == 5
MinObs == 250

\* Python's None, and a value that is not None
None == <<>>
Some(v) == <<v>>

RECURSIVE SeqSum(_)
SeqSum(s) == IF s = <<>> THEN 0 ELSE Head(s) + SeqSum(Tail(s))

(***************************************************************************)
(* backtest_pair: z = (spread - spread.mean()) / spread.std()              *)
(***************************************************************************)
N == Len(spread)

\* N * (s[k] - s.mean()): the numerator of the z-score of observation k
Dev(s, k) == Len(s) * s[k] - SeqSum(s)

\* N^2 * (N-1) * s.var(): zero exactly when s.std() is zero
SumSq(s) == SeqSum([k \in 1..Len(s) |-> Dev(s, k) * Dev(s, k)])

\* spread.std() == 0 (or undefined): every z-score is NaN
StdZero == N < 2 \/ std = 0

SignedSq(a) == IF a >= 0 THEN a * a ELSE -(a * a)

\* z > thr/10 for the z-score with numerator d; a NaN compares False
ZGt(d, thr) ==
    /\ ~StdZero
    /\ SignedSq(10 * d) * (N - 1) > SignedSq(thr) * std

\* z < thr/10 for the z-score with numerator d; a NaN compares False
ZLt(d, thr) ==
    /\ ~StdZero
    /\ SignedSq(10 * d) * (N - 1) < SignedSq(thr) * std

\* z.iloc[k], as its numerator
ZIloc(k) == z[k]

\* z.loc[label]: the z-score at the position carrying that timestamp
ZLoc(label) == z[CHOOSE k \in 1..N : index[k] = label]

Money(b, q) == [base |-> b, qty |-> q]

\* capital += profit
AddProfitSkip(cap, profit) == cap
AddProfit(cap, profit) ==
    Money(cap.base + profit.base, cap.qty + profit.qty)

\* (spread.iloc[i] - entry_price) * (size / spread.std())
LongProfit(k, entry) == Money(0, spread[k] - entry)

\* (entry_price - spread.iloc[i]) * (size / spread.std())
ShortProfit(k, entry) == Money(0, entry - spread[k])

\* entry_date = spread.index[i]
EntryDatePrevious(k) == index[k - 1]
EntryDate(k) == index[k]

\* z.iloc[i] > entry_z
ShortEntryAtOrAbove(k) == ~ZLt(ZIloc(k), entry_z) /\ ~StdZero
ShortEntry(k) == ZGt(ZIloc(k), entry_z)

\* z.iloc[i] < -entry_z
LongEntryNoSign(k) == ZLt(ZIloc(k), entry_z)
LongEntry(k) == ZLt(ZIloc(k), -entry_z)

\* z.iloc[i] > -exit_z
LongExitOrLast(k) == ZGt(ZIloc(k), -exit_z) \/ k = N
LongExit(k) == ZGt(ZIloc(k), -exit_z)

\* z.iloc[i] < exit_z
ShortExit(k) == ZLt(ZIloc(k), exit_z)

\* the dict appended to trades
Trade(dir, k, profit) ==
    [entry_date   |-> entry_date[1],
     exit_date    |-> index[k],
     position     |-> dir,
     entry_spread |-> entry_price[1],
     exit_spread  |-> spread[k],
     profit       |-> profit,
     entry_z      |-> ZLoc(entry_date[1]),
     exit_z       |-> ZIloc(k)]

\* spread.index: n strictly increasing timestamps, consecutive or with gaps
Indexes(n) ==
    {[k \in 1..n |-> k * gap] : gap \in {1, 3}}

ScanIdle ==
    /\ keys = <<>> /\ noPrice = {} /\ max_pairs = 0 /\ j = 0
    /\ candidates = <<>> /\ tested = <<>> /\ aligned = <<>> /\ adf = <<>>
    /\ run = 0 /\ prev = <<>>

\* backtest_pair up to the loop header
Init ==
    /\ \E n \in MinLen..MaxLen :
         /\ spread \in [1..n -> SpreadVals]
         /\ index \in Indexes(n)
    /\ z = [k \in 1..N |-> Dev(spread, k)]
    /\ std = SumSq(spread)
    /\ cash \in CashVals
    /\ entry_z \in EntryVals
    /\ exit_z \in ExitVals
    /\ position = 0
    /\ pnl = <<Money(cash, 0)>>
    /\ capital = Money(cash, 0)
    /\ trades = <<>>
    /\ entry_price = None
    /\ entry_date = None
    /\ i = 2
    /\ pc = "loop"
    /\ ScanIdle

\* end of one iteration: pnl.append(capital), next i, return after the last
EndStep(cap) ==
    /\ pnl' = Append(pnl, cap)
    /\ i' = i + 1
    /\ pc' = IF i + 1 > N THEN "returned" ELSE "loop"
    /\ UNCHANGED <<spread, index, z, std, cash, entry_z, exit_z>>
    /\ UNCHANGED scVars

OpenShort ==
    /\ pc = "loop"
    /\ position = 0
    /\ ShortEntry(i)
    /\ position' = -1
    /\ entry_price' = Some(spread[i])
    /\ entry_date' = Some(EntryDate(i))
    /\ UNCHANGED <<capital, trades>>
    /\ EndStep(capital)

OpenLong ==
    /\ pc = "loop"
    /\ position = 0
    /\ ~ShortEntry(i)
    /\ LongEntry(i)
    /\ position' = 1
    /\ entry_price' = Some(spread[i])
    /\ entry_date' = Some(EntryDate(i))
    /\ UNCHANGED <<capital, trades>>
    /\ EndStep(capital)

CloseLong ==
    /\ pc = "loop"
    /\ position = 1
    /\ LongExit(i)
    /\ LET profit == LongProfit(i, entry_price[1])
       IN  /\ capital' = AddProfit(capital, profit)
           /\ trades' = Append(trades, Trade("LONG", i, profit))
    /\ position' = 0
    /\ entry_price' = None
    /\ entry_date' = None
    /\ EndStep(capital')

CloseShort ==
    /\ pc = "loop"
    /\ position = -1
    /\ ShortExit(i)
    /\ LET profit == ShortProfit(i, entry_price[1])
       IN  /\ capital' = AddProfit(capital, profit)
           /\ trades' = Append(trades, Trade("SHORT", i, profit))
    /\ position' = 0
    /\ entry_price' = None
    /\ entry_date' = None
    /\ EndStep(capital')

\* no branch of the if / elif chain is taken
Hold ==
    /\ pc = "loop"
    /\ \/ position = 0 /\ ~ShortEntry(i) /\ ~LongEntry(i)
       \/ position = 1 /\ ~LongExit(i)
       \/ position = -1 /\ ~ShortExit(i)
    /\ UNCHANGED <<position, entry_price, entry_date, capital, trades>>
    /\ EndStep(capital)

Next == OpenShort \/ OpenLong \/ CloseLong \/ CloseShort \/ Hold

Spec == Init /\ [][Next]_vars

(***************************************************************************)
(* find_cointegrated_pairs                                                 *)
(*                                                                         *)
(* The aligned length of a pair and the ADF p-value of its residuals are   *)
(* results of library calls on the input tables: each is drawn when the    *)
(* pair is first evaluated and kept, so that a second scan of the same     *)
(* data_dict sees the same values.  The aligned length belongs to the      *)
(* unordered pair (inner join); the p-value belongs to the ordered pair    *)
(* (the first key is the regressor).                                       *)
(***************************************************************************)
LenVals == {MinObs - 1, MinObs}
PVals == {1, 3, 5}

\* safe_price(df) raises KeyError
SafePriceRaises(a) == a \in noPrice

\* adf_p < significance
Accept(p) == p < Significance

\* number of leading entries of the sorted list s that stay before c
KeepBeforeStrict(s, c) == Cardinality({m \in 1..Len(s) : s[m][3] < c[3]})
KeepBefore(s, c) == Cardinality({m \in 1..Len(s) : s[m][3] <= c[3]})

InsertSorted(s, c) ==
    LET k == KeepBefore(s, c)
    IN  SubSeq(s, 1, k) \o <<c>> \o SubSeq(s, k + 1, Len(s))

\* candidates.sort(key=lambda x: x[2]): stable, ascending by p-value
RECURSIVE SortByP(_)
SortByP(s) ==
    IF s = <<>> THEN <<>>
    ELSE InsertSorted(SortByP(SubSeq(s, 1, Len(s) - 1)), s[Len(s)])

\* len(candidates) >= max_pairs
LimitReached(c) == Len(c) >= max_pairs

ScanInit ==
    /\ \E n \in 0..MaxInstr :
         /\ keys = [k \in 1..n |-> k]
         /\ noPrice \in SUBSET (1..n)
    /\ max_pairs \in 0..MaxLimit
    /\ candidates = <<>>
    /\ tested = <<>>
    /\ aligned = <<>>
    /\ adf = <<>>
    /\ i = 1
    /\ j = 2
    /\ run = 1
    /\ prev = <<>>
    /\ pc = "scan"
    /\ spread = <<>> /\ index = <<>> /\ z = <<>> /\ std = 0 /\ cash = 0 /\ entry_z = 0 /\ exit_z = 0
    /\ position = 0 /\ pnl = <<>> /\ capital = Money(0, 0) /\ trades = <<>>
    /\ entry_price = None /\ entry_date = None

\* candidates.sort(...); return candidates
Return(c) ==
    /\ candidates' = SortByP(c)
    /\ pc' = "returned"
    /\ UNCHANGED <<i, j>>

\* the next iteration of the inner loop, or of the outer loop after its
\* check of the limit; the scan returns when the loops are exhausted
Continue(c) ==
    IF j < Len(keys)
    THEN /\ j' = j + 1
         /\ UNCHANGED i
         /\ candidates' = c
         /\ pc' = "scan"
    ELSE IF ~LimitReached(c) /\ i + 1 < Len(keys)
    THEN /\ i' = i + 1
         /\ j' = i + 2
         /\ candidates' = c
         /\ pc' = "scan"
    ELSE Return(c)

ScanFrame ==
    UNCHANGED <<keys, noPrice, max_pairs, run, prev>> /\ UNCHANGED btVars

\* fewer than two keys: no pair is enumerated
ScanNoPairs ==
    /\ pc = "scan"
    /\ Len(keys) < 2
    /\ Return(candidates)
    /\ UNCHANGED <<tested, aligned, adf>>
    /\ ScanFrame

\* safe_price raises for keys[i] or keys[j]: the exception leaves the function
ScanRaise ==
    /\ pc = "scan"
    /\ Len(keys) >= 2
    /\ SafePriceRaises(keys[i]) \/ SafePriceRaises(keys[j])
    /\ pc' = "raised"
    /\ UNCHANGED <<i, j, candidates, tested, aligned, adf>>
    /\ ScanFrame

\* len(df) < 250: continue
ScanSkip ==
    /\ pc = "scan"
    /\ Len(keys) >= 2
    /\ ~SafePriceRaises(keys[i]) /\ ~SafePriceRaises(keys[j])
    /\ LET pair == {keys[i], keys[j]}
       IN  \E n \in LenVals :
             /\ pair \in DOMAIN aligned => n = aligned[pair]
             /\ n < MinObs
             /\ aligned' = (pair :> n) @@ aligned
    /\ Continue(candidates)
    /\ UNCHANGED <<tested, adf>>
    /\ ScanFrame

\* OLS, adfuller, the append and the check of the limit
ScanTest ==
    /\ pc = "scan"
    /\ Len(keys) >= 2
    /\ ~SafePriceRaises(keys[i]) /\ ~SafePriceRaises(keys[j])
    /\ LET a == keys[i]
           b == keys[j]
       IN  /\ \E n \in LenVals :
                /\ {a, b} \in DOMAIN aligned => n = aligned[{a, b}]
                /\ ~(n < MinObs)
                /\ aligned' = ({a, b} :> n) @@ aligned
           /\ \E p \in PVals :
                /\ <<a, b>> \in DOMAIN adf => p = adf[<<a, b>>]
                /\ adf' = (<<a, b>> :> p) @@ adf
                /\ tested' = Append(tested, <<a, b>>)
                /\ LET c == IF Accept(p) THEN Append(candidates, <<a, b, p>>)
                            ELSE candidates
                   IN  IF LimitReached(c) THEN Return(c) ELSE Continue(c)
    /\ ScanFrame

ScanNext == ScanNoPairs \/ ScanRaise \/ ScanSkip \/ ScanTest

ScanSpec == ScanInit /\ [][ScanNext]_vars

\* the caller scans the same data_dict again with its keys in another order
Rescan ==
    /\ pc = "returned"
    /\ run = 1
    /\ Len(keys) <= MaxRescan
    /\ \E perm \in [1..Len(keys) -> 1..Len(keys)] :
         /\ \A m \in 1..Len(keys) : \E k \in 1..Len(keys) : perm[k] = m
         /\ perm # [k \in 1..Len(keys) |-> k]
         /\ keys' = [k \in 1..Len(keys) |-> keys[perm[k]]]
    /\ prev' = candidates
    /\ candidates' = <<>>
    /\ tested' = <<>>
    /\ i' = 1
    /\ j' = 2
    /\ run' = 2
    /\ pc' = "scan"
    /\ UNCHANGED <<noPrice, max_pairs, aligned, adf>>
    /\ UNCHANGED btVars

RescanNext == ScanNext \/ Rescan

RescanSpec == ScanInit /\ [][RescanNext]_vars

(***************************************************************************)
(* Properties of backtest_pair                                             *)
(***************************************************************************)
\* position of a timestamp in spread.index
Pos(label) == CHOOSE k \in 1..N : index[k] = label

\* realized profit, in units of size / std, of the trades closed at or before k
ClosedBy(k) ==
    SeqSum([t \in 1..Len(trades) |->
              IF trades[t].exit_date <= index[k] THEN trades[t].profit.qty ELSE 0])

\* C1: the position is always FLAT (0), LONG_SPREAD (+1) or SHORT_SPREAD (-1),
\* and trades never overlap: each trade's exit timestamp is strictly earlier
\* than the next trade's entry timestamp, and than the entry timestamp of the
\* position that is open now.
C1_NoOverlap ==
    /\ position \in {0, 1, -1}
    /\ \A t \in 1..(Len(trades) - 1) :
         trades[t].exit_date < trades[t + 1].entry_date
    /\ (position # 0 /\ trades # <<>>) =>
         trades[Len(trades)].exit_date < entry_date[1]

\* two trades, the second opened at the step right after the first closed
C1_Witness ==
    /\ pc = "returned"
    /\ Len(trades) >= 2
    /\ Pos(trades[2].entry_date) = Pos(trades[1].exit_date) + 1

\* C2: the capital trajectory has one value per observation, starts at the
\* initial capital, at every step equals the initial capital plus the realized
\* profit of the trades closed at or before that step, and is constant from a
\* trade's entry step up to the step before its exit.
C2_CapitalTrajectory ==
    /\ Len(pnl) = i - 1
    /\ pc = "returned" => Len(pnl) = N
    /\ pnl[1] = Money(cash, 0)
    /\ \A k \in 1..Len(pnl) : pnl[k] = Money(cash, ClosedBy(k))
    /\ pc = "returned" =>
         pnl[N] = Money(cash, SeqSum([t \in 1..Len(trades) |-> trades[t].profit.qty]))
    /\ \A t \in 1..Len(trades) :
         \A k \in Pos(trades[t].entry_date)..(Pos(trades[t].exit_date) - 1) :
            pnl[k] = pnl[Pos(trades[t].entry_date)]

\* a finished run with two trades of non-zero profit, one held several steps
C2_Witness ==
    /\ pc = "returned"
    /\ Len(trades) >= 2
    /\ \A t \in 1..Len(trades) : trades[t].profit.qty # 0
    /\ pnl[N] # pnl[1]
    /\ \E t \in 1..Len(trades) :
         Pos(trades[t].exit_date) > Pos(trades[t].entry_date) + 1

C3_OpenAtEnd ==
    (pc = "returned" /\ position # 0) =>
        /\ entry_date # None
        /\ \A t \in 1..Len(trades) :
             /\ trades[t].entry_date # entry_date[1]
             /\ trades[t].exit_date < entry_date[1]
             /\ trades[t].exit_date <= index[N]
        /\ Len(pnl) = N
        /\ pnl[N] = Money(cash, SeqSum([t \in 1..Len(trades) |-> trades[t].profit.qty]))

C3_Step ==
    /\ Len(trades') = Len(trades) + (IF position # 0 /\ position' = 0 THEN 1 ELSE 0)
    /\ (pc = "loop" /\ i = N /\ position = 1 /\ ~ZGt(z[N], -exit_z)) =>
         (position' = 1 /\ trades' = trades /\ capital' = capital
            /\ entry_date' = entry_date /\ pc' = "returned")
    /\ (pc = "loop" /\ i = N /\ position = -1 /\ ~ZLt(z[N], exit_z)) =>
         (position' = -1 /\ trades' = trades /\ capital' = capital
            /\ entry_date' = entry_date /\ pc' = "returned")

\* C3: a position still open at the last observation is not closed: the run
\* returns with it open, it has no record in the ledger and adds nothing to
\* the capital trajectory; the ledger grows by one exactly at each close
\* transition, and the last step closes nothing whose exit condition fails.
C3_NoAutoClose == []C3_OpenAtEnd /\ [][C3_Step]_vars

\* a run that returns with a position open after an earlier trade was closed
C3_Witness ==
    /\ pc = "returned"
    /\ position # 0
    /\ Len(trades) >= 1

\* C4: when the standard deviation of the spread is zero the backtest is not
\* executed: the step loop does not advance and no result is returned.
C4_DegenerateRejected ==
    StdZero => (i = 2 /\ pc # "returned")

C8_State ==
    /\ i >= 2
    /\ (position = 0) <=> (entry_price = None)
    /\ (position = 0) <=> (entry_date = None)
    /\ \A t \in 1..Len(trades) :
         LET e == Pos(trades[t].entry_date)
             x == Pos(trades[t].exit_date)
             long == trades[t].position = "LONG"
         IN  /\ 2 <= e /\ e < x
             /\ trades[t].position \in {"LONG", "SHORT"}
             /\ IF long THEN ZGt(z[x], -exit_z) ELSE ZLt(z[x], exit_z)
             /\ \A k \in (e + 1)..(x - 1) :
                  IF long THEN ~ZGt(z[k], -exit_z) ELSE ~ZLt(z[k], exit_z)
    /\ position # 0 =>
         LET e == Pos(entry_date[1])
         IN  /\ 2 <= e
             /\ entry_price = Some(spread[e])
             /\ \A k \in (e + 1)..(i - 1) :
                  IF position = 1 THEN ~ZGt(z[k], -exit_z) ELSE ~ZLt(z[k], exit_z)

C8_Opened(p) ==
    /\ position' = p
    /\ entry_price' = Some(spread[i])
    /\ entry_date' = Some(index[i])
    /\ trades' = trades

C8_Closed(dir) ==
    /\ position' = 0
    /\ entry_price' = None
    /\ entry_date' = None
    /\ Len(trades') = Len(trades) + 1
    /\ SubSeq(trades', 1, Len(trades)) = trades
    /\ LET r == trades'[Len(trades')]
       IN  /\ r.position = dir
           /\ r.entry_date = entry_date[1]
           /\ r.exit_date = index[i]
           /\ r.entry_spread = entry_price[1]
           /\ r.exit_spread = spread[i]

C8_Persist ==
    UNCHANGED <<position, entry_price, entry_date, trades, capital>>

C8_Step ==
    LET up == ZGt(z[i], entry_z)
        down == ZLt(z[i], -entry_z)
    IN  /\ i' = i + 1
        /\ (position = 0 /\ up /\ ~down) => C8_Opened(-1)
        /\ (position = 0 /\ down /\ ~up) => C8_Opened(1)
        /\ (position = 0 /\ up /\ down) => (C8_Opened(-1) \/ C8_Opened(1))
        /\ (position = 0 /\ ~up /\ ~down) => C8_Persist
        /\ (position = 1 /\ ZGt(z[i], -exit_z)) => C8_Closed("LONG")
        /\ (position = 1 /\ ~ZGt(z[i], -exit_z)) => C8_Persist
        /\ (position = -1 /\ ZLt(z[i], exit_z)) => C8_Closed("SHORT")
        /\ (position = -1 /\ ~ZLt(z[i], exit_z)) => C8_Persist

\* C8: one transition rule is evaluated per step, from the second observation
\* on: FLAT opens SHORT when z > entry_z and LONG when z < -entry_z, recording
\* the entry spread and timestamp; LONG closes when z > -exit_z and SHORT when
\* z < exit_z, appending a trade and clearing the entry state; otherwise the
\* state persists.  Every position closes at the first step after its entry at
\* which its exit condition holds, and the entry state is set exactly when the
\* position is not FLAT.
C8_TransitionRules == []C8_State /\ [][C8_Step]_vars

\* a finished run under the default thresholds that traded in both
\* directions and held one position over a step where its exit test failed
C8_Witness ==
    /\ pc = "returned"
    /\ entry_z = 10 /\ exit_z = 2
    /\ \E t \in 1..Len(trades) : trades[t].position = "LONG"
    /\ \E t \in 1..Len(trades) : trades[t].position = "SHORT"
    /\ \E t \in 1..Len(trades) :
         Pos(trades[t].exit_date) > Pos(trades[t].entry_date) + 1

C9_Scope == entry_z >= 0 /\ exit_z >= 0 /\ exit_z <= entry_z

\* C9 as stated: for thresholds 0 <= exit_z <= entry_z every trade has
\* |entry z| > entry_z and |exit z| < exit_z.
C9_Magnitudes ==
    C9_Scope =>
      \A t \in 1..Len(trades) :
         /\ ZGt(trades[t].entry_z, entry_z) \/ ZLt(trades[t].entry_z, -entry_z)
         /\ ZLt(trades[t].exit_z, exit_z) /\ ZGt(trades[t].exit_z, -exit_z)

\* C9 as amended: every trade's entry z-score is beyond the entry threshold on
\* its own side (LONG below -entry_z, SHORT above entry_z, so its magnitude
\* exceeds entry_z when 0 <= exit_z <= entry_z), and its exit z-score is only
\* bounded on one side: above -exit_z for a LONG, below exit_z for a SHORT.
C9_OneSidedExit ==
    \A t \in 1..Len(trades) :
       /\ trades[t].position = "LONG" =>
            /\ ZLt(trades[t].entry_z, -entry_z)
            /\ ZGt(trades[t].exit_z, -exit_z)
       /\ trades[t].position = "SHORT" =>
            /\ ZGt(trades[t].entry_z, entry_z)
            /\ ZLt(trades[t].exit_z, exit_z)
       /\ C9_Scope =>
            (ZGt(trades[t].entry_z, entry_z) \/ ZLt(trades[t].entry_z, -entry_z))

\* a trade under 0 <= exit_z <= entry_z whose exit z-score overshoots the band
C9_Witness ==
    /\ C9_Scope
    /\ \E t \in 1..Len(trades) :
         /\ trades[t].position = "LONG"
         /\ ~ZLt(trades[t].exit_z, exit_z)

(***************************************************************************)
(* Properties of find_cointegrated_pairs                                   *)
(***************************************************************************)
\* place of the pair (a, b) in the enumeration order of the current keys
KeyPos(a) == CHOOSE k \in 1..Len(keys) : keys[k] = a
EnumRank(c) == KeyPos(c[1]) * (Len(keys) + 1) + KeyPos(c[2])

\* C5: an instrument with neither an adjusted-close nor a close column is
\* left out and does not terminate the scan: the scan never ends in the
\* KeyError of safe_price.
C5_MissingPriceExcluded ==
    pc # "raised"

\* a candidate without the order of its two identifiers
Unordered(c) == <<{c[1], c[2]}, c[3]>>

\* every p-value computed so far is the same for both regression directions
SymmetricP ==
    \A o \in DOMAIN adf :
       <<o[2], o[1]>> \in DOMAIN adf => adf[<<o[2], o[1]>>] = adf[o]

\* C6: scanning the same instruments with the keys in another order returns
\* the identical sorted candidate list.  Stated in the form most favourable
\* to the code: up to the order of the two identifiers inside a candidate,
\* only when the p-values did not depend on the regression direction, and
\* only for max_pairs >= 1.
C6_OrderInvariant ==
    (run = 2 /\ pc = "returned" /\ SymmetricP /\ max_pairs >= 1) =>
        [m \in 1..Len(candidates) |-> Unordered(candidates[m])]
          = [m \in 1..Len(prev) |-> Unordered(prev[m])]

\* C7: the returned list is sorted non-decreasing by p-value, candidates with
\* equal p-values are in pair enumeration order, every candidate is a pair of
\* aligned length at least 250 whose p-value is strictly below the
\* significance threshold, and fewer than two instruments give the empty list.
C7_SortedAccepted ==
    pc = "returned" =>
        /\ \A m \in 1..(Len(candidates) - 1) :
             /\ candidates[m][3] <= candidates[m + 1][3]
             /\ candidates[m][3] = candidates[m + 1][3] =>
                  EnumRank(candidates[m]) < EnumRank(candidates[m + 1])
        /\ \A m \in 1..Len(candidates) :
             LET c == candidates[m]
             IN  /\ KeyPos(c[1]) < KeyPos(c[2])
                 /\ aligned[{c[1], c[2]}] >= MinObs
                 /\ adf[<<c[1], c[2]>>] = c[3]
                 /\ c[3] < Significance
        /\ Len(keys) < 2 => candidates = <<>>

\* a returned list of three that needed sorting and holds a tie
C7_Witness ==
    /\ pc = "returned"
    /\ Len(candidates) >= 3
    /\ \E m \in 1..(Len(candidates) - 1) : candidates[m][3] = candidates[m + 1][3]
    /\ \E m \in 1..(Len(candidates) - 1) :
         EnumRank(candidates[m]) > EnumRank(candidates[m + 1])
    /\ \E o \in DOMAIN adf : adf[o] >= Significance
    /\ \E o \in DOMAIN aligned : aligned[o] < MinObs

\* C10: for every max_pairs >= 0 the list never holds more than max_pairs
\* entries (the scan stops as soon as max_pairs acceptable pairs are found).
C10_LimitRespected ==
    Len(candidates) <= max_pairs

====
